---- MODULE Spec2Model ----
(***************************************************************************)
(* Model of the data generators of src/DataGen.py: the range samplers      *)
(* (ascendingData, descendingData, ascendingDataWithNoise), the square     *)
(* wave (squareData) and the two combinatorial constructors                *)
(* (genDataWithInversions, genDataOutOfPlace); and of BubbleSort.bubbleSort *)
(* of src/bubble_sort.py.                                                  *)
(*                                                                         *)
(* A Python list is a TLA+ sequence; Python index j is sequence index j+1. *)
(* A call that raises leaves result.kind = "error" and result.err the      *)
(* exception's type; a call that returns leaves result.kind = "list".      *)
(***************************************************************************)
EXTENDS Integers, Sequences, FiniteSets, TLC

----------------------------------------------------------------------------
(* Bounds of the enumerated inputs *)

MaxN == 6            \* genDataWithInversions: len in 0..MaxN
MaxLenArr == 5       \* genDataOutOfPlace: lenArr in 0..MaxLenArr
MaxCount == 6        \* genDataOutOfPlace: countOutOfPlace in -3..MaxCount
MaxValue == 10       \* ascendingData, descendingData: min_value, max_value in 0..MaxValue
MaxLength == 5       \* ascendingData, descendingData: array_length in -1..MaxLength
MaxStep == 2         \* ascendingData, descendingData: step in -1..MaxStep
MaxNoiseValue == 3   \* ascendingDataWithNoise: min_value, max_value in 0..MaxNoiseValue
MaxNoiseLength == 3  \* ascendingDataWithNoise: array_length in -1..MaxNoiseLength
MaxNoiseNum == 6     \* ascendingDataWithNoise: noise_factor = num/NoiseDen, num in -1..MaxNoiseNum
MaxSize == 4         \* squareData: size in 0..MaxSize
MaxFreqNum == 4      \* squareData: frequency = num/FreqDen, num in 0..MaxFreqNum
MaxMultiplier == 2   \* squareData: multiplier in -1..MaxMultiplier
MaxArrLen == 4       \* bubbleSort: len(arr) in 0..MaxArrLen
MaxArrValue == 2     \* bubbleSort: the elements of arr in 0..MaxArrValue

\* noise_factor is a float; the model draws it from the multiples of 1/4,
\* which binary floating point represents exactly
NoiseDen == 4

\* frequency is a float; the model draws it from the multiples of 1/2
FreqDen == 2

----------------------------------------------------------------------------
(* Python helpers *)

\* list(range(n))
Range(n) == [j \in 1..n |-> j - 1]

\* [0] * n
Zeros(n) == [j \in 1..n |-> 0]

\* int(x / d) for d > 0: truncation towards zero
TruncDiv(x, d) == IF x >= 0 THEN x \div d ELSE -((-x) \div d)

\* max(x, y)
Max(x, y) == IF x >= y THEN x ELSE y

\* min(x, y)
Min(x, y) == IF x <= y THEN x ELSE y

\* insertion of v into the ascending list s, before the first larger element
RECURSIVE InsertSorted(_, _)
InsertSorted(s, v) ==
    IF s = <<>> THEN <<v>>
    ELSE IF v <= Head(s) THEN <<v>> \o s
    ELSE <<Head(s)>> \o InsertSorted(Tail(s), v)

\* sorted(s) left out: the sample in the order drawn
Unsorted(s) == s

\* sorted(s)
RECURSIVE Sorted(_)
Sorted(s) == IF s = <<>> THEN <<>> ELSE InsertSorted(Sorted(Tail(s)), Head(s))

\* the possible values of random.sample(range(lo, lo + size), count):
\* count distinct elements of the population, in any order
RandomSample(lo, size, count) ==
    {s \in [1..count -> lo..(lo + size - 1)] :
        \A p, q \in 1..count : p # q => s[p] # s[q]}

\* xs[p] = xs[q] without the simultaneous xs[q] = xs[p]
SwapAtOverwrite(xs, p, q) == [xs EXCEPT ![p + 1] = xs[q + 1]]

\* xs[p], xs[q] = xs[q], xs[p] on Python indices p, q
SwapAt(xs, p, q) == [xs EXCEPT ![p + 1] = xs[q + 1], ![q + 1] = xs[p + 1]]

----------------------------------------------------------------------------
(* State *)

VARIABLES
    pc,               \* "idle", "inv" (head of the while loop of genDataWithInversions),
                      \* "oop" (head of the while loop of genDataOutOfPlace),
                      \* "bubble" (head of the inner loop of bubbleSort), "done"
    fn,               \* the function called
    args,             \* its arguments as passed
    result,           \* what the call returned or raised
    len,              \* genDataWithInversions: len
    numInversions,    \* genDataWithInversions: numInversions (decremented by the loop)
    a,                \* genDataWithInversions: a
    b,                \* genDataWithInversions: b
    i,                \* genDataWithInversions: i
    lenArr,           \* genDataOutOfPlace: lenArr
    countOutOfPlace,  \* genDataOutOfPlace: countOutOfPlace
    sorted_array,     \* genDataOutOfPlace: sorted_array
    swaps_count,      \* genDataOutOfPlace: swaps_count
    index,            \* genDataOutOfPlace: index
    drawn,            \* genDataOutOfPlace: the indices random.randint returned, in order
    scaled_range,     \* ascendingDataWithNoise: scaled_range
    arr,              \* bubbleSort: arr, the caller's list, sorted in place
    bs_n,             \* bubbleSort: n
    bs_i,             \* bubbleSort: i of the outer loop
    bs_j              \* bubbleSort: j of the inner loop

vars == <<pc, fn, args, result, len, numInversions, a, b, i,
          lenArr, countOutOfPlace, sorted_array, swaps_count, index, drawn,
          scaled_range, arr, bs_n, bs_i, bs_j>>

invVars == <<len, numInversions, a, b, i>>
oopVars == <<lenArr, countOutOfPlace, sorted_array, swaps_count, index, drawn>>
bsVars == <<arr, bs_n, bs_i, bs_j>>

NoResult == [kind |-> "none", val |-> <<>>, err |-> ""]
Returned(xs) == [kind |-> "list", val |-> xs, err |-> ""]
\* return xs, (end - start): a pair of the list and the elapsed time, which is not modelled
ReturnedWithTime(xs) == [kind |-> "pair", val |-> xs, err |-> ""]
Raised(e) == [kind |-> "error", val |-> <<>>, err |-> e]

Init ==
    /\ pc = "idle"
    /\ fn = "none"
    /\ args = <<>>
    /\ result = NoResult
    /\ len = 0
    /\ numInversions = 0
    /\ a = <<>>
    /\ b = <<>>
    /\ i = 0
    /\ lenArr = 0
    /\ countOutOfPlace = 0
    /\ sorted_array = <<>>
    /\ swaps_count = 0
    /\ index = 0
    /\ drawn = <<>>
    /\ scaled_range = 0
    /\ arr = <<>>
    /\ bs_n = 0
    /\ bs_i = 0
    /\ bs_j = 0

----------------------------------------------------------------------------
(* ascendingData, descendingData *)

\* step < 0 in place of step <= 0
InvalidRangeZeroStep(min_value, max_value, array_length, step) ==
    array_length < 0 \/ min_value > max_value \/ step < 0

InvalidRange(min_value, max_value, array_length, step) ==
    array_length < 0 \/ min_value > max_value \/ step <= 0

\* range(1, array_length + 1) in place of range(array_length)
AscendingArrayFromOne(min_value, array_length, step) ==
    [j \in 1..array_length |-> min_value + j * step]

AscendingArray(min_value, array_length, step) ==
    [j \in 1..array_length |-> min_value + (j - 1) * step]

DescendingArray(max_value, array_length, step) ==
    [j \in 1..array_length |-> max_value - (j - 1) * step]

ascendingData(min_value, max_value, array_length, step) ==
    /\ pc = "idle"
    /\ pc' = "done"
    /\ fn' = "ascendingData"
    /\ args' = <<min_value, max_value, array_length, step>>
    /\ result' = IF InvalidRange(min_value, max_value, array_length, step)
                 THEN Raised("ValueError")
                 ELSE Returned(AscendingArray(min_value, array_length, step))
    /\ UNCHANGED <<invVars, oopVars, scaled_range, bsVars>>

descendingData(min_value, max_value, array_length, step) ==
    /\ pc = "idle"
    /\ pc' = "done"
    /\ fn' = "descendingData"
    /\ args' = <<min_value, max_value, array_length, step>>
    /\ result' = IF InvalidRange(min_value, max_value, array_length, step)
                 THEN Raised("ValueError")
                 ELSE Returned(DescendingArray(max_value, array_length, step))
    /\ UNCHANGED <<invVars, oopVars, scaled_range, bsVars>>

----------------------------------------------------------------------------
(* ascendingDataWithNoise *)

\* scaled_range without max(1, scaled_range)
ScaledRangeUnclamped(min_value, max_value, noiseNum) ==
    TruncDiv((max_value - min_value + 1) * noiseNum, NoiseDen)

\* max(1, int((max_value - min_value + 1) * noise_factor)), noise_factor = noiseNum / NoiseDen
ScaledRange(min_value, max_value, noiseNum) ==
    Max(1, TruncDiv((max_value - min_value + 1) * noiseNum, NoiseDen))

ascendingDataWithNoise(min_value, max_value, array_length, noiseNum) ==
    LET sr == ScaledRange(min_value, max_value, noiseNum)
        count == Min(array_length, sr)
    IN /\ pc = "idle"
       /\ pc' = "done"
       /\ fn' = "ascendingDataWithNoise"
       /\ args' = <<min_value, max_value, array_length, noiseNum>>
       /\ scaled_range' = sr
       /\ IF count < 0
          THEN result' = Raised("ValueError")     \* random.sample: negative sample size
          ELSE \E s \in RandomSample(min_value, sr, count) :
                   result' = Returned(Sorted(s))
       /\ UNCHANGED <<invVars, oopVars, bsVars>>

----------------------------------------------------------------------------
(* genDataWithInversions *)

\* the suffix with b[len - 1 - numInversions] = c[0] in place of c[numInversions]
SuffixBlockUnrotated(bb, n, pos, k) ==
    LET c == [t \in 1..(k + 1) |-> (n - 1 - k + (t - 1)) - pos]
        b1 == [j \in 1..n |->
                 IF j - 1 >= pos /\ j - 1 < n - 1 - k THEN (j - 1) - pos ELSE bb[j]]
        b2 == [b1 EXCEPT ![(n - 1 - k) + 1] = c[1]]
    IN [j \in 1..n |->
          IF j - 1 >= n - k THEN c[(j - 1) - (n - k) + 1] ELSE b2[j]]

\* the last loop copying from c[j - (len - numInversions) + 1]
SuffixBlockShifted(bb, n, pos, k) ==
    LET c == [t \in 1..(k + 1) |-> (n - 1 - k + (t - 1)) - pos]
        b1 == [j \in 1..n |->
                 IF j - 1 >= pos /\ j - 1 < n - 1 - k THEN (j - 1) - pos ELSE bb[j]]
        b2 == [b1 EXCEPT ![(n - 1 - k) + 1] = c[k + 1]]
    IN [j \in 1..n |->
          IF j - 1 >= n - k THEN c[(j - 1) - (n - k) + 2] ELSE b2[j]]

\* the else branch of the loop: the suffix from position i on, for budget k
SuffixBlock(bb, n, pos, k) ==
    LET c == [t \in 1..(k + 1) |-> (n - 1 - k + (t - 1)) - pos]
        b1 == [j \in 1..n |->
                 IF j - 1 >= pos /\ j - 1 < n - 1 - k THEN (j - 1) - pos ELSE bb[j]]
        b2 == [b1 EXCEPT ![(n - 1 - k) + 1] = c[k + 1]]
    IN [j \in 1..n |->
          IF j - 1 >= n - k THEN c[(j - 1) - (n - k) + 1] ELSE b2[j]]

\* numInversions >= len - i - 1 in place of >
PlacesMaximalOrEqual(k, n, pos) == k >= n - pos - 1

\* the test of the if inside the loop
PlacesMaximal(k, n, pos) == k > n - pos - 1

genDataWithInversions(n, k) ==
    /\ pc = "idle"
    /\ fn' = "genDataWithInversions"
    /\ args' = <<n, k>>
    /\ len' = n
    /\ numInversions' = k
    /\ a' = Range(n)
    /\ b' = Zeros(n)
    /\ i' = 0
    /\ IF n = 0 \/ k = 0
       THEN pc' = "done" /\ result' = Returned(Range(n))
       ELSE pc' = "inv" /\ result' = NoResult
    /\ UNCHANGED <<oopVars, scaled_range, bsVars>>

\* the if branch with numInversions - (len - i) in place of numInversions - (len - 1 - i)
InvPrefixOffByOne ==
    /\ pc = "inv"
    /\ numInversions > 0
    /\ PlacesMaximal(numInversions, len, i)
    /\ IF i < len
       THEN /\ b' = [b EXCEPT ![i + 1] = a[(len - 1 - i) + 1]]
            /\ numInversions' = numInversions - (len - i)
            /\ i' = i + 1
            /\ UNCHANGED <<pc, result>>
       ELSE /\ pc' = "done"
            /\ result' = Raised("IndexError")
            /\ UNCHANGED <<b, numInversions, i>>
    /\ UNCHANGED <<fn, args, len, a, oopVars, scaled_range, bsVars>>

\* the if branch: place the largest remaining value at position i
InvPrefix ==
    /\ pc = "inv"
    /\ numInversions > 0
    /\ PlacesMaximal(numInversions, len, i)
    /\ IF i < len
       THEN /\ b' = [b EXCEPT ![i + 1] = a[(len - 1 - i) + 1]]
            /\ numInversions' = numInversions - (len - 1 - i)
            /\ i' = i + 1
            /\ UNCHANGED <<pc, result>>
       ELSE /\ pc' = "done"                      \* b[i] with i = len
            /\ result' = Raised("IndexError")
            /\ UNCHANGED <<b, numInversions, i>>
    /\ UNCHANGED <<fn, args, len, a, oopVars, scaled_range, bsVars>>

\* the else branch: build the suffix, break, return b
InvSuffix ==
    /\ pc = "inv"
    /\ numInversions > 0
    /\ ~PlacesMaximal(numInversions, len, i)
    /\ b' = SuffixBlock(b, len, i, numInversions)
    /\ pc' = "done"
    /\ result' = Returned(b')
    /\ UNCHANGED <<fn, args, len, numInversions, a, i, oopVars, scaled_range, bsVars>>

\* the loop condition numInversions > 0 is false: return b
InvExit ==
    /\ pc = "inv"
    /\ numInversions <= 0
    /\ pc' = "done"
    /\ result' = Returned(b)
    /\ UNCHANGED <<fn, args, invVars, oopVars, scaled_range, bsVars>>

----------------------------------------------------------------------------
(* genDataOutOfPlace *)

\* countOutOfPlace % 2 == 1 with a remainder that takes the sign of the dividend
RemainderIsOne(c) == c > 0 /\ c % 2 = 1

\* countOutOfPlace % 2 != 0 (Python's % takes the sign of the divisor)
NotMultipleOfTwo(c) == c % 2 # 0

genDataOutOfPlace(n, c) ==
    /\ pc = "idle"
    /\ fn' = "genDataOutOfPlace"
    /\ args' = <<n, c>>
    /\ lenArr' = n
    /\ countOutOfPlace' = c
    /\ sorted_array' = Range(n)
    /\ swaps_count' = 0
    /\ index' = 0
    /\ drawn' = <<>>
    /\ IF NotMultipleOfTwo(c)
       THEN pc' = "done" /\ result' = Raised("ValueError")
       ELSE pc' = "oop" /\ result' = NoResult
    /\ UNCHANGED <<invVars, scaled_range, bsVars>>

\* the iteration with swaps_count += 2 for every swap
OopSwapAddsTwo(idx) ==
    /\ pc = "oop"
    /\ swaps_count < countOutOfPlace
    /\ idx \in 0..(lenArr - 3)
    /\ index' = idx
    /\ drawn' = Append(drawn, idx)
    /\ sorted_array' = SwapAt(sorted_array, idx, idx + 2)
    /\ swaps_count' = swaps_count + 2
    /\ UNCHANGED <<pc, fn, args, result, lenArr, countOutOfPlace, invVars, scaled_range, bsVars>>

\* the iteration with swaps_count += 1 for every swap
OopSwapAddsOne(idx) ==
    /\ pc = "oop"
    /\ swaps_count < countOutOfPlace
    /\ idx \in 0..(lenArr - 3)
    /\ index' = idx
    /\ drawn' = Append(drawn, idx)
    /\ sorted_array' = SwapAt(sorted_array, idx, idx + 2)
    /\ swaps_count' = swaps_count + 1
    /\ UNCHANGED <<pc, fn, args, result, lenArr, countOutOfPlace, invVars, scaled_range, bsVars>>

\* one iteration of the while loop, random.randint(0, lenArr - 3) returning idx
OopSwap(idx) ==
    /\ pc = "oop"
    /\ swaps_count < countOutOfPlace
    /\ idx \in 0..(lenArr - 3)
    /\ index' = idx
    /\ drawn' = Append(drawn, idx)
    /\ sorted_array' = SwapAt(sorted_array, idx, idx + 2)
    /\ swaps_count' = swaps_count + (IF swaps_count = 0 THEN 2 ELSE 1)
    /\ UNCHANGED <<pc, fn, args, result, lenArr, countOutOfPlace, invVars, scaled_range, bsVars>>

\* random.randint(0, lenArr - 3) on an empty range
OopEmptyRange ==
    /\ pc = "oop"
    /\ swaps_count < countOutOfPlace
    /\ lenArr - 3 < 0
    /\ pc' = "done"
    /\ result' = Raised("ValueError")
    /\ UNCHANGED <<fn, args, oopVars, invVars, scaled_range, bsVars>>

\* the loop condition swaps_count < countOutOfPlace is false: return sorted_array
OopReturn ==
    /\ pc = "oop"
    /\ swaps_count >= countOutOfPlace
    /\ pc' = "done"
    /\ result' = Returned(sorted_array)
    /\ UNCHANGED <<fn, args, oopVars, invVars, scaled_range, bsVars>>

----------------------------------------------------------------------------
(* squareData *)

\* the possible values of np.sign(np.sin(2 * np.pi * frequency * t)) at the
\* j-th point t = j / size of np.linspace(0, 1, size, endpoint=False), with
\* frequency = freqNum / FreqDen.  The argument is exactly 0.0 when j = 0 or
\* frequency = 0, and sin(0.0) = 0.0.  At a nonzero multiple of pi the float
\* argument is not the exact multiple, and the sine is a rounding residue that
\* is nonzero with either sign.
SquareSign(size, freqNum, j) ==
    LET P == freqNum * j
        D == FreqDen * size
    IN IF P = 0 THEN {0}
       ELSE IF (2 * P) % D = 0 THEN {-1, 1}
       ELSE IF (2 * P) % (2 * D) < D THEN {1}
       ELSE {-1}

squareData(size, freqNum, multiplier) ==
    /\ pc = "idle"
    /\ pc' = "done"
    /\ fn' = "squareData"
    /\ args' = <<size, freqNum, multiplier>>
    /\ \E sg \in [1..size -> {-1, 0, 1}] :
          /\ \A p \in 1..size : sg[p] \in SquareSign(size, freqNum, p - 1)
          /\ result' = Returned([p \in 1..size |-> multiplier * sg[p]])
    /\ UNCHANGED <<invVars, oopVars, scaled_range, bsVars>>

----------------------------------------------------------------------------
(* BubbleSort.bubbleSort *)

\* range(0, n - i - 2) in place of range(0, n - i - 1)
InnerLimitShort(n, pass) == n - pass - 2

\* the end of range(0, n - i - 1), the inner loop of pass i
InnerLimit(n, pass) == n - pass - 1

bubbleSort(xs) ==
    /\ pc = "idle"
    /\ pc' = "bubble"
    /\ fn' = "bubbleSort"
    /\ args' = <<xs>>
    /\ result' = NoResult
    /\ arr' = xs
    /\ bs_n' = Len(xs)
    /\ bs_i' = 0
    /\ bs_j' = 0
    /\ UNCHANGED <<invVars, oopVars, scaled_range>>

\* one iteration of the inner loop: compare arr[j] and arr[j + 1], swap when out of order
BubbleInner ==
    /\ pc = "bubble"
    /\ bs_i < bs_n - 1
    /\ bs_j < InnerLimit(bs_n, bs_i)
    /\ arr' = IF arr[bs_j + 1] > arr[(bs_j + 1) + 1]
              THEN SwapAt(arr, bs_j, bs_j + 1)
              ELSE arr
    /\ bs_j' = bs_j + 1
    /\ UNCHANGED <<pc, fn, args, result, bs_n, bs_i, invVars, oopVars, scaled_range>>

\* the inner loop of pass i is exhausted: the outer loop takes its next i
BubbleNextPass ==
    /\ pc = "bubble"
    /\ bs_i < bs_n - 1
    /\ bs_j >= InnerLimit(bs_n, bs_i)
    /\ bs_i' = bs_i + 1
    /\ bs_j' = 0
    /\ UNCHANGED <<pc, fn, args, result, arr, bs_n, invVars, oopVars, scaled_range>>

\* range(n - 1) is exhausted: return arr, (end - start)
BubbleReturn ==
    /\ pc = "bubble"
    /\ bs_i >= bs_n - 1
    /\ pc' = "done"
    /\ result' = ReturnedWithTime(arr)
    /\ UNCHANGED <<fn, args, bsVars, invVars, oopVars, scaled_range>>

----------------------------------------------------------------------------
(* The driver makes one call after another; every call starts from fresh locals *)

NextCall ==
    /\ pc = "done"
    /\ pc' = "idle"
    /\ fn' = "none"
    /\ args' = <<>>
    /\ result' = NoResult
    /\ len' = 0
    /\ numInversions' = 0
    /\ a' = <<>>
    /\ b' = <<>>
    /\ i' = 0
    /\ lenArr' = 0
    /\ countOutOfPlace' = 0
    /\ sorted_array' = <<>>
    /\ swaps_count' = 0
    /\ index' = 0
    /\ drawn' = <<>>
    /\ scaled_range' = 0
    /\ arr' = <<>>
    /\ bs_n' = 0
    /\ bs_i' = 0
    /\ bs_j' = 0

Next ==
    \/ \E mn \in 0..MaxValue, mx \in 0..MaxValue, n \in -1..MaxLength, st \in -1..MaxStep :
           ascendingData(mn, mx, n, st)
    \/ \E mn \in 0..MaxValue, mx \in 0..MaxValue, n \in -1..MaxLength, st \in -1..MaxStep :
           descendingData(mn, mx, n, st)
    \/ \E mn \in 0..MaxNoiseValue, mx \in 0..MaxNoiseValue,
          n \in -1..MaxNoiseLength, nf \in -1..MaxNoiseNum :
           ascendingDataWithNoise(mn, mx, n, nf)
    \/ \E n \in 0..MaxN, k \in -2..((MaxN * (MaxN - 1)) \div 2 + 2) :
           genDataWithInversions(n, k)
    \/ InvPrefix
    \/ InvSuffix
    \/ InvExit
    \/ \E n \in 0..MaxLenArr, c \in -3..MaxCount : genDataOutOfPlace(n, c)
    \/ \E idx \in 0..(MaxLenArr - 3) : OopSwap(idx)
    \/ OopEmptyRange
    \/ OopReturn
    \/ \E sz \in 0..MaxSize, fq \in 0..MaxFreqNum, m \in -1..MaxMultiplier :
           squareData(sz, fq, m)
    \/ \E n \in 0..MaxArrLen : \E xs \in [1..n -> 0..MaxArrValue] : bubbleSort(xs)
    \/ BubbleInner
    \/ BubbleNextPass
    \/ BubbleReturn
    \/ NextCall

Spec == Init /\ [][Next]_vars

\* A call runs to its end: the loops of the three iterative functions are
\* sequential code, and an enabled iteration is eventually executed.
FairSpec ==
    /\ Spec
    /\ WF_vars(InvPrefix \/ InvSuffix \/ InvExit)
    /\ WF_vars((\E idx \in 0..(MaxLenArr - 3) : OopSwap(idx)) \/ OopEmptyRange \/ OopReturn)
    /\ WF_vars(BubbleInner \/ BubbleNextPass \/ BubbleReturn)

----------------------------------------------------------------------------
(* Type invariant *)

TypeOK ==
    /\ pc \in {"idle", "inv", "oop", "bubble", "done"}
    /\ result.kind \in {"none", "list", "pair", "error"}
    /\ (pc = "done") <=> (result.kind # "none")

----------------------------------------------------------------------------
(* Vocabulary of the properties, defined apart from the model's operators *)

\* [0, 1, ..., n-1]
Identity(n) == [p \in 1..n |-> p - 1]

\* [n-1, ..., 1, 0]
FullReverse(n) == [p \in 1..n |-> n - p]

\* n(n-1)/2
MaxInversions(n) == (n * (n - 1)) \div 2

\* number of pairs p < q with s[p] > s[q]
InversionCount(s) ==
    Cardinality({pq \in (1..Len(s)) \X (1..Len(s)) : pq[1] < pq[2] /\ s[pq[1]] > s[pq[2]]})

\* every integer of 0..n-1 appears exactly once in s
IsPermutation(s, n) ==
    /\ Len(s) = n
    /\ \A v \in 0..(n - 1) : Cardinality({p \in 1..n : s[p] = v}) = 1

\* number of positions where s differs from the identity
Displaced(s) == Cardinality({p \in 1..Len(s) : s[p] # p - 1})

StrictlyIncreasing(s) == \A p \in 1..(Len(s) - 1) : s[p] < s[p + 1]

StrictlyDecreasing(s) == \A p \in 1..(Len(s) - 1) : s[p] > s[p + 1]

NoDuplicates(s) == \A p, q \in 1..Len(s) : p # q => s[p] # s[q]

IsOdd(c) == \E m \in -(MaxCount + 4)..(MaxCount + 4) : c = 2 * m + 1

\* the transpositions (idx, idx+2) of S touch pairwise disjoint positions
NonOverlapping(S) == \A x, y \in S : x # y => {x, x + 2} \cap {y, y + 2} = {}

\* the identity of length n after the transpositions (idx, idx+2), idx in S, S non-overlapping
Transposed(n, S) ==
    [p \in 1..n |-> IF p - 1 \in S THEN p + 1
                    ELSE IF p - 3 \in S THEN p - 3
                    ELSE p - 1]

\* round(x / d) for d > 0, halves to the even neighbour
RoundDiv(x, d) ==
    LET m == IF x >= 0 THEN x ELSE -x
        q == m \div d
        r == m % d
        n == IF 2 * r < d THEN q
             ELSE IF 2 * r > d THEN q + 1
             ELSE IF q % 2 = 0 THEN q ELSE q + 1
    IN IF x >= 0 THEN n ELSE -n

InvDone == pc = "done" /\ fn = "genDataWithInversions"
OopDone == pc = "done" /\ fn = "genDataOutOfPlace"
NoiseDone == pc = "done" /\ fn = "ascendingDataWithNoise"

----------------------------------------------------------------------------
(* genDataWithInversions *)

\* C1: for 0 <= k <= n(n-1)/2, genDataWithInversions(n, k) returns a list of
\* length n in which every integer of 0..n-1 appears exactly once and whose
\* inversion count, counted pair by pair, is exactly k.
C1_ExactInversionCount ==
    (InvDone /\ 0 <= args[2] /\ args[2] <= MaxInversions(args[1]))
        => /\ result.kind = "list"
           /\ IsPermutation(result.val, args[1])
           /\ InversionCount(result.val) = args[2]

\* a call that placed a prefix and then built a suffix block
C1_Witness ==
    /\ InvDone
    /\ args = <<5, 7>>
    /\ i = 1
    /\ result = Returned(<<4, 3, 0, 1, 2>>)

\* C2: genDataWithInversions raises, and returns no list, whenever k < 0 or
\* k > n(n-1)/2, for every n >= 0.
C2_OutOfRangeRaises ==
    (InvDone /\ (args[2] < 0 \/ args[2] > MaxInversions(args[1])))
        => result.kind = "error"

\* C6: genDataWithInversions(n, 0) is the identity, genDataWithInversions(n,
\* n(n-1)/2) is the full reverse, and genDataWithInversions(0, k) is empty.
C6_EdgeCases ==
    InvDone
        => /\ args[2] = 0 => result = Returned(Identity(args[1]))
           /\ args[2] = MaxInversions(args[1]) => result = Returned(FullReverse(args[1]))
           /\ args[1] = 0 => result = Returned(<<>>)

\* the full reverse of five elements, reached through the loop
C6_Witness ==
    /\ InvDone
    /\ args = <<5, 10>>
    /\ i > 0
    /\ result = Returned(<<4, 3, 2, 1, 0>>)

----------------------------------------------------------------------------
(* genDataOutOfPlace *)

\* C3: for even c with 0 <= c <= n-1, whatever indices are drawn, the list
\* genDataOutOfPlace(n, c) returns differs from the identity in at most c
\* positions.
C3_AtMostCDisplaced ==
    (OopDone /\ result.kind = "list" /\ ~IsOdd(args[2])
       /\ 0 <= args[2] /\ args[2] <= args[1] - 1)
        => Displaced(result.val) <= args[2]

\* C4: for even c >= 0 and n >= 3, the list genDataOutOfPlace(n, c) returns is
\* the sorted list after exactly c/2 transpositions (idx, idx+2) whose index
\* pairs do not overlap. (Stated for c <= n-1, the displacement a list of
\* length n can hold.)
C4_HalfCTranspositions ==
    (OopDone /\ result.kind = "list" /\ ~IsOdd(args[2]) /\ args[2] >= 0 /\ args[1] >= 3
       /\ args[2] <= args[1] - 1)
        => \E S \in SUBSET (0..(args[1] - 3)) :
              /\ Cardinality(S) = args[2] \div 2
              /\ NonOverlapping(S)
              /\ result.val = Transposed(args[1], S)

\* C5: in every state during and after the swap loop of genDataOutOfPlace the
\* working list holds every integer of 0..n-1 exactly once, and so does the
\* list returned.
C5_AlwaysPermutation ==
    /\ (fn = "genDataOutOfPlace" /\ pc \in {"oop", "done"})
          => IsPermutation(sorted_array, lenArr)
    /\ (OopDone /\ result.kind = "list") => IsPermutation(result.val, args[1])

\* the loop has swapped, with overlapping index pairs, and the list is out of order
C5_Witness ==
    /\ fn = "genDataOutOfPlace"
    /\ pc = "oop"
    /\ Len(drawn) >= 2
    /\ drawn[1] + 2 = drawn[2]
    /\ sorted_array # Identity(lenArr)

\* C7: genDataOutOfPlace raises for every odd c, positive or negative, before
\* any swap is performed and before any random index is drawn.
C7_OddCountRaises ==
    (fn = "genDataOutOfPlace" /\ IsOdd(args[2]))
        => /\ pc = "done"
           /\ result = Raised("ValueError")
           /\ drawn = <<>>
           /\ sorted_array = Identity(args[1])

\* a negative odd count on a list long enough to be swapped
C7_Witness ==
    /\ OopDone
    /\ args = <<5, -3>>
    /\ result.kind = "error"

----------------------------------------------------------------------------
(* ascendingDataWithNoise *)

\* C8: for array_length >= 0, whatever random.sample draws, the output of
\* ascendingDataWithNoise is strictly increasing, has no duplicate and is no
\* longer than array_length.
C8_NoiseMonotoneUniqueBounded ==
    (NoiseDone /\ args[3] >= 0)
        => /\ result.kind = "list"
           /\ StrictlyIncreasing(result.val)
           /\ NoDuplicates(result.val)
           /\ Len(result.val) <= args[3]

\* three values returned, not the three smallest of the range
C8_Witness ==
    /\ NoiseDone
    /\ Len(result.val) = 3
    /\ result.val[3] - result.val[1] > 2

\* C9 as stated: with scaledRange = max(1, round((max-min+1)*noiseFactor)), the
\* output is exactly min(length, scaledRange) distinct integers of
\* [min, min+scaledRange), without an error when length exceeds scaledRange.
C9_RoundedScaledRange ==
    (NoiseDone /\ args[3] >= 0)
        => LET sr == Max(1, RoundDiv((args[2] - args[1] + 1) * args[4], NoiseDen))
           IN /\ result.kind = "list"
              /\ Len(result.val) = Min(args[3], sr)
              /\ NoDuplicates(result.val)
              /\ \A p \in 1..Len(result.val) :
                    args[1] <= result.val[p] /\ result.val[p] < args[1] + sr

\* C9 amended: scaledRange = max(1, int((max-min+1)*noiseFactor)), the product
\* truncated towards zero; for length >= 0 the output is exactly
\* min(length, scaledRange) distinct integers of [min, min+scaledRange), and no
\* error is raised when length exceeds scaledRange.
C9_TruncatedScaledRange ==
    (NoiseDone /\ args[3] >= 0)
        => LET prod == (args[2] - args[1] + 1) * args[4]
               sr == IF prod >= NoiseDen THEN prod \div NoiseDen ELSE 1
           IN /\ scaled_range = sr
              /\ result.kind = "list"
              /\ Len(result.val) = Min(args[3], sr)
              /\ NoDuplicates(result.val)
              /\ \A p \in 1..Len(result.val) :
                    args[1] <= result.val[p] /\ result.val[p] < args[1] + sr

\* a request for more values than the scaled range holds, returned clamped
C9_Witness ==
    /\ NoiseDone
    /\ args = <<0, 2, 3, 3>>
    /\ scaled_range = 2
    /\ result = Returned(<<0, 1>>)

----------------------------------------------------------------------------
(* ascendingData, descendingData *)

\* C10: for length >= 0, min <= max and step > 0, ascendingData returns length
\* values, the i-th being min + i*step, strictly increasing, and descendingData
\* returns length values, the i-th being max - i*step, strictly decreasing;
\* ascendingData(0, 10, 5, 2) = [0, 2, 4, 6, 8].
C10_ArithmeticSequences ==
    (pc = "done" /\ fn \in {"ascendingData", "descendingData"}
       /\ args[3] >= 0 /\ args[1] <= args[2] /\ args[4] > 0)
        => /\ result.kind = "list"
           /\ Len(result.val) = args[3]
           /\ fn = "ascendingData"
                 => /\ \A p \in 1..args[3] : result.val[p] = args[1] + (p - 1) * args[4]
                    /\ StrictlyIncreasing(result.val)
           /\ fn = "descendingData"
                 => /\ \A p \in 1..args[3] : result.val[p] = args[2] - (p - 1) * args[4]
                    /\ StrictlyDecreasing(result.val)
           /\ (fn = "ascendingData" /\ args = <<0, 10, 5, 2>>)
                 => result.val = <<0, 2, 4, 6, 8>>

\* the example of the specification
C10_Witness ==
    /\ pc = "done"
    /\ fn = "ascendingData"
    /\ args = <<0, 10, 5, 2>>
    /\ result = Returned(<<0, 2, 4, 6, 8>>)

----------------------------------------------------------------------------
(* ascendingData, descendingData: errors and range *)

RangeDone == pc = "done" /\ fn \in {"ascendingData", "descendingData"}

\* C11: ascendingData and descendingData raise, and return no sequence, if and
\* only if length < 0 or min > max or step <= 0; every other input returns a
\* sequence without error.
C11_RaisesIffInvalid ==
    RangeDone
        => IF args[3] < 0 \/ args[1] > args[2] \/ args[4] <= 0
           THEN result = Raised("ValueError")
           ELSE result.kind = "list"

\* a zero step, the boundary of step <= 0, rejected by descendingData
C11_Witness ==
    /\ pc = "done"
    /\ fn = "descendingData"
    /\ args = <<0, 3, 2, 0>>
    /\ result.kind = "error"

\* C13: every value ascendingData and descendingData return for accepted
\* inputs lies within [min_value, max_value], and the values are pairwise
\* distinct.
C13_WithinRangeDistinct ==
    (RangeDone /\ result.kind = "list")
        => /\ \A p \in 1..Len(result.val) :
                 args[1] <= result.val[p] /\ result.val[p] <= args[2]
           /\ NoDuplicates(result.val)

----------------------------------------------------------------------------
(* squareData *)

\* C12: for size >= 1 and frequency > 0, every sample of squareData(size,
\* frequency, m) is -m or m, the first sample at t = 0 included, and
\* squareData(4, 1.0, 1.0) = [1, 1, -1, -1].
C12_SquareTakesOnlyPlusMinusM ==
    (pc = "done" /\ fn = "squareData" /\ args[1] >= 1 /\ args[2] > 0)
        => /\ result.kind = "list"
           /\ \A p \in 1..Len(result.val) : result.val[p] \in {-args[3], args[3]}
           /\ args = <<4, FreqDen, 1>> => result.val = <<1, 1, -1, -1>>

----------------------------------------------------------------------------
(* genDataOutOfPlace: the displacement counter *)

\* the counter is 0 before the first swap and one more than the number of
\* swaps after it; for even c >= 2 and n >= 3 it never passes c, and the call
\* returns after c-1 swaps with the counter at c; for c = 0 nothing is swapped
C14_CounterInvariant ==
    (fn = "genDataOutOfPlace" /\ ~IsOdd(args[2]))
        => /\ swaps_count = (IF drawn = <<>> THEN 0 ELSE Len(drawn) + 1)
           /\ (args[2] >= 2 /\ args[1] >= 3)
                 => /\ swaps_count <= args[2]
                    /\ pc = "done"
                          => /\ result.kind = "list"
                             /\ Len(drawn) = args[2] - 1
                             /\ swaps_count = args[2]
           /\ (args[2] = 0 /\ pc = "done")
                 => /\ drawn = <<>>
                    /\ result = Returned(Identity(args[1]))

\* C14: the displacement counter of genDataOutOfPlace starts at 0, the first
\* swap adds 2 and every later swap adds 1; for even c >= 2 and n >= 3,
\* whatever indices are drawn, the loop terminates after exactly c-1 swaps
\* with the counter equal to c, never above it; for c = 0 no swap is performed
\* and the identity is returned.
C14_SwapCounter ==
    /\ []C14_CounterInvariant
    /\ (fn = "genDataOutOfPlace" /\ pc = "oop") ~> (pc = "done")

\* five swaps for c = 6
C14_Witness ==
    /\ OopDone
    /\ args = <<5, 6>>
    /\ Len(drawn) = 5
    /\ swaps_count = 6

\* C18: for even c >= 2 and n >= 3, whatever indices are drawn, repeated or
\* overlapping ones included, genDataOutOfPlace applies an odd number of
\* transpositions and its output is never the identity: at least 2 positions
\* differ from sorted order.
C18_NeverIdentity ==
    (OopDone /\ ~IsOdd(args[2]) /\ args[2] >= 2 /\ args[1] >= 3)
        => /\ result.kind = "list"
           /\ IsOdd(Len(drawn))
           /\ result.val # Identity(args[1])
           /\ Displaced(result.val) >= 2

\* two of the three swaps undo each other
C18_Witness ==
    /\ OopDone
    /\ args = <<4, 4>>
    /\ drawn = <<1, 1, 0>>
    /\ result = Returned(<<2, 1, 0, 3>>)

----------------------------------------------------------------------------
(* genDataWithInversions: the loop *)

\* a call with n >= 1 and 1 <= k <= n(n-1)/2
InvValid ==
    /\ fn = "genDataWithInversions"
    /\ args[1] >= 1
    /\ 1 <= args[2] /\ args[2] <= MaxInversions(args[1])

\* the inversions contributed by m prefix placements in a list of length n:
\* the sum over j < m of n-1-j
RECURSIVE Contributed(_, _)
Contributed(n, m) == IF m <= 0 THEN 0 ELSE Contributed(n, m - 1) + (n - 1 - (m - 1))

\* C15: loop invariant of genDataWithInversions for valid (n, k): after i
\* prefix placements, positions 0..i-1 hold n-1, n-2, ..., n-i, the inversions
\* they contribute plus the remaining budget k' equal the original k, and
\* 0 < k' <= (n-i)(n-i-1)/2.
C15_LoopInvariant ==
    (InvValid /\ pc \in {"inv", "done"})
        => /\ \A j \in 0..(i - 1) : b[j + 1] = args[1] - 1 - j
           /\ Contributed(args[1], i) + numInversions = args[2]
           /\ 0 < numInversions
           /\ numInversions <= MaxInversions(args[1] - i)

\* at the loop head after two prefix placements
C15_Witness ==
    /\ pc = "inv"
    /\ args = <<5, 8>>
    /\ i = 2
    /\ numInversions = 1
    /\ b = <<4, 3, 0, 0, 0>>

\* the call returned through the final branch, at position i with budget numInversions
SuffixTaken ==
    /\ InvDone
    /\ result.kind = "list"
    /\ args[1] >= 1
    /\ numInversions >= 1

\* the last k+1 elements of s
LastBlock(s, k) == [t \in 1..(k + 1) |-> s[Len(s) - (k + 1) + t]]

\* s read cyclically from its element r+1 on
Rotated(s, r) == [t \in 1..Len(s) |-> s[((t - 1 + r) % Len(s)) + 1]]

\* C16: when genDataWithInversions reaches its final branch with budget k' at
\* position i, the last k'+1 positions form a block that is a cyclic rotation
\* of its own ascending order, with the block's smallest value in the k'-th
\* slot counted from the end of the block (k'-1 values follow it); the block
\* contributes exactly k' inversions; and the positions between i and the
\* block are filled in ascending order with values smaller than every value
\* of the block.
C16_SuffixBlockRotation ==
    SuffixTaken
        => LET k == numInversions
               n == args[1]
               blk == LastBlock(result.val, k)
           IN /\ k + 1 <= n - i
              /\ \E r \in 0..k : StrictlyIncreasing(Rotated(blk, r))
              /\ \A t \in 1..(k + 1) : blk[(k + 1) - k + 1] <= blk[t]
              /\ InversionCount(blk) = k
              /\ \A p \in (i + 1)..(n - k - 2) : result.val[p] < result.val[p + 1]
              /\ \A p \in (i + 1)..(n - k - 1) : \A t \in 1..(k + 1) : result.val[p] < blk[t]

\* one prefix placement, two ascending values, then a block of three
C16_Witness ==
    /\ SuffixTaken
    /\ args = <<6, 7>>
    /\ i = 1
    /\ numInversions = 2
    /\ result = Returned(<<5, 0, 1, 4, 2, 3>>)

\* for valid (n, k): at the loop head the budget is positive and the position
\* is a list index, so is every index of the branch taken there, and the call
\* ends by returning a list from the final branch
C17_LoopSafety ==
    InvValid
        => /\ pc = "inv"
                 => /\ numInversions > 0
                    /\ 0 <= i /\ i <= args[1] - 1
                    /\ numInversions <= args[1] - i - 1
                          => /\ i <= args[1] - 1 - numInversions
                             /\ args[1] - 1 - numInversions <= args[1] - 1
           /\ pc = "done"
                 => /\ result.kind = "list"
                    /\ numInversions > 0
                    /\ i <= args[1] - 1

\* C17: for valid (n, k) with n >= 1 and 1 <= k <= n(n-1)/2 the while loop of
\* genDataWithInversions terminates by taking the final branch after at most
\* n-1 prefix placements; the budget never reaches 0 or below by subtraction,
\* and no list index outside [0, n-1] is read or written.
C17_LoopTerminates ==
    /\ []C17_LoopSafety
    /\ (InvValid /\ pc = "inv") ~> (pc = "done")

\* three prefix placements before the final branch
C17_Witness ==
    /\ InvDone
    /\ args = <<6, 14>>
    /\ i = 3
    /\ numInversions = 2
    /\ result.kind = "list"

----------------------------------------------------------------------------
(* BubbleSort.bubbleSort *)

NonDecreasing(s) == \A p \in 1..(Len(s) - 1) : s[p] <= s[p + 1]

\* s and t hold the same values, each the same number of times
SameMultiset(s, t) ==
    /\ Len(s) = Len(t)
    /\ \A v \in {s[p] : p \in 1..Len(s)} \cup {t[p] : p \in 1..Len(t)} :
          Cardinality({p \in 1..Len(s) : s[p] = v}) = Cardinality({p \in 1..Len(t) : t[p] = v})

\* the last m positions of s hold their final sorted values: each is at least
\* every element before it
TailFinal(s, m) ==
    \A p \in (Len(s) - m + 1)..Len(s) : \A q \in 1..(p - 1) : s[q] <= s[p]

\* t is s with two adjacent elements exchanged
AdjacentSwap(s, t) ==
    \E p \in 1..(Len(s) - 1) : t = [s EXCEPT ![p] = s[p + 1], ![p + 1] = s[p]]

\* what bubbleSort does to the list, apart from the shape of what it returns
C19_SortInvariant ==
    fn = "bubbleSort"
        => /\ SameMultiset(arr, args[1])
           /\ TailFinal(arr, bs_i)
           /\ (pc = "bubble" /\ bs_i < bs_n - 1 /\ bs_j = bs_n - bs_i - 1)
                 => TailFinal(arr, bs_i + 1)
           /\ pc = "done"
                 => /\ result.val = arr
                    /\ NonDecreasing(result.val)
                    /\ SameMultiset(result.val, args[1])

====
